---- MODULE Spec2Model ----
(***************************************************************************)
(* Model of the proforma-invoice generators 3app.py, 6app.py and 7app.py.  *)
(*                                                                         *)
(* A pandas DataFrame is a record [columns, rows]: columns is the sequence *)
(* of column labels (labels may repeat after a rename) and every row is a  *)
(* sequence of cells aligned with columns.  A cell is <<>> for a missing   *)
(* value (NaN / None) and <<v>> for the value v.  Prices and amounts are   *)
(* integer counts of 1/1000 USD.  The quantities of 3app.py worksheets are *)
(* whole numbers; the quantities of 6app.py and 7app.py worksheets may be  *)
(* whole numbers and a half, and are integer counts of 1/1000 of a piece.  *)
(***************************************************************************)
EXTENDS Integers, Sequences, FiniteSets, TLC

VARIABLES app, pc, df, df_processed, messages, doc, today, meta, total_float

vars == <<app, pc, df, df_processed, messages, doc, today, meta, total_float>>

(* ------------------------------ bounds --------------------------------- *)

MaxRows == 2

(* --------------------------- cells and frames -------------------------- *)

NaN == <<>>

Some(v) == <<v>>

notna(c) == c # NaN

Val(c) == c[1]

NoFrame == [columns |-> <<>>, rows |-> <<>>]

Has(cols, c) == \E i \in DOMAIN cols : cols[i] = c

Positions(cols, c) == {i \in DOMAIN cols : cols[i] = c}

Count(cols, c) == Cardinality(Positions(cols, c))

IndexOf(cols, c) == CHOOSE i \in DOMAIN cols : cols[i] = c

Cell(cols, row, c) == row[IndexOf(cols, c)]

RECURSIVE SetToSortedSeq(_)
SetToSortedSeq(S) ==
    IF S = {} THEN <<>>
    ELSE LET m == CHOOSE a \in S : \A b \in S : a <= b
         IN <<m>> \o SetToSortedSeq(S \ {m})

(* DataFrame.rename(columns={old: new}): every label equal to old becomes  *)
(* new, in place; a label new that is already there is left alone, so the  *)
(* result can carry the same label twice.                                  *)
rename(cols, old, new) ==
    [i \in DOMAIN cols |-> IF cols[i] = old THEN new ELSE cols[i]]

(* ------------------------- groupby(...).agg(...) ----------------------- *)

(* Python's str ordering of the style identifiers the inputs draw from.    *)
StyleOrder == <<"", "A", "B">>

StyleRank(s) == CHOOSE i \in DOMAIN StyleOrder : StyleOrder[i] = s

RECURSIVE Distinct(_)
Distinct(seq) ==
    IF seq = <<>> THEN <<>>
    ELSE <<Head(seq)>> \o Distinct(SelectSeq(Tail(seq), LAMBDA x : x # Head(seq)))

KeysInInputOrder(frame, key) ==
    LET k == IndexOf(frame.columns, key)
        kept == SelectSeq(frame.rows, LAMBDA row : notna(row[k]))
    IN [r \in DOMAIN kept |-> Val(kept[r][k])]

(* Mutation: one group per record, the keys are not made distinct.         *)
GroupKeys_PerRecord(frame, key) == KeysInInputOrder(frame, key)

(* Mutation: groupby(key, sort=False), keys in order of first appearance.  *)
GroupKeys_Unsorted(frame, key) == Distinct(KeysInInputOrder(frame, key))

(* groupby(key): the distinct non-missing keys (dropna=True is the         *)
(* default), in ascending key order (sort=True is the default).            *)
GroupKeys(frame, key) ==
    LET k == IndexOf(frame.columns, key)
        present == {Val(frame.rows[r][k]) :
                        r \in {q \in DOMAIN frame.rows : notna(frame.rows[q][k])}}
        ranks == SetToSortedSeq({StyleRank(s) : s \in present})
    IN [i \in DOMAIN ranks |-> StyleOrder[ranks[i]]]

(* The rows of one group, in input order.                                  *)
GroupRows(frame, key, s) ==
    LET k == IndexOf(frame.columns, key)
    IN SelectSeq(frame.rows, LAMBDA row : row[k] = Some(s))

ColumnCells(rows, i) == [r \in DOMAIN rows |-> rows[r][i]]

(* Mutation: the value of the group's first row, missing or not.           *)
first_Positional(cells) == IF cells = <<>> THEN NaN ELSE Head(cells)

(* GroupBy 'first': the first non-missing value of the group, NaN if none. *)
RECURSIVE first(_)
first(cells) ==
    IF cells = <<>> THEN NaN
    ELSE IF notna(Head(cells)) THEN Head(cells)
    ELSE first(Tail(cells))

RECURSIVE SumValues(_)
SumValues(cells) ==
    IF cells = <<>> THEN 0
    ELSE (IF notna(Head(cells)) THEN Val(Head(cells)) ELSE 0) + SumValues(Tail(cells))

(* Mutation: the quantity column aggregated with 'first' instead of 'sum'. *)
sum_AsFirst(cells) == first(cells)

(* GroupBy 'sum': missing values are skipped; an all-missing group is 0.   *)
sum(cells) == Some(SumValues(cells))

Aggregate(how, cells) == IF how = "first" THEN first(cells) ELSE sum(cells)

RECURSIVE Flatten(_)
Flatten(ss) == IF ss = <<>> THEN <<>> ELSE Head(ss) \o Flatten(Tail(ss))

(* The positions of the frame's columns that the aggregation dictionary    *)
(* selects, in dictionary order; a repeated label yields each occurrence.  *)
AggPositions(cols, agg) ==
    Flatten([j \in DOMAIN agg |-> SetToSortedSeq(Positions(cols, agg[j].col))])

AggHow(cols, agg, p) ==
    agg[CHOOSE j \in DOMAIN agg : agg[j].col = cols[p]].how

(* frame.groupby(key).agg(agg).reset_index()                               *)
GroupByAgg(frame, key, agg) ==
    LET keys == GroupKeys(frame, key)
        pos  == AggPositions(frame.columns, agg)
    IN [columns |-> <<key>> \o [i \in DOMAIN pos |-> frame.columns[pos[i]]],
        rows |-> [g \in DOMAIN keys |->
                    LET grp == GroupRows(frame, key, keys[g])
                    IN <<Some(keys[g])>> \o
                       [i \in DOMAIN pos |->
                          Aggregate(AggHow(frame.columns, agg, pos[i]),
                                    ColumnCells(grp, pos[i]))]]]

(* df[col] = value: a new column holding value in every row.               *)
AddColumn(frame, col, value) ==
    [columns |-> Append(frame.columns, col),
     rows |-> [r \in DOMAIN frame.rows |-> Append(frame.rows[r], Some(value))]]

(* ------------------------ 3app.py process_excel_data ------------------- *)

(* Mutation: the mapping also turns the key label back.                    *)
column_mapping_Back == <<
    [old |-> "Style",                new |-> "StyleID"],
    [old |-> "Description",          new |-> "Item Description"],
    [old |-> "Material Composition", new |-> "Composition"],
    [old |-> "USD FOB$",             new |-> "Unit Price"],
    [old |-> "Total Qty",            new |-> "Qty"],
    [old |-> "Total Value",          new |-> "Amount"],
    [old |-> "StyleID",              new |-> "Style"] >>

column_mapping == <<
    [old |-> "Style",                new |-> "StyleID"],
    [old |-> "Description",          new |-> "Item Description"],
    [old |-> "Material Composition", new |-> "Composition"],
    [old |-> "USD FOB$",             new |-> "Unit Price"],
    [old |-> "Total Qty",            new |-> "Qty"],
    [old |-> "Total Value",          new |-> "Amount"] >>

RECURSIVE RenameAll(_, _, _)
RenameAll(orig, cols, n) ==
    IF n > Len(column_mapping) THEN cols
    ELSE RenameAll(orig,
                   IF Has(orig, column_mapping[n].old)
                   THEN rename(cols, column_mapping[n].old, column_mapping[n].new)
                   ELSE cols,
                   n + 1)

agg_functions == <<
    [col |-> "Item Description", how |-> "first"],
    [col |-> "Composition",      how |-> "first"],
    [col |-> "Unit Price",       how |-> "first"],
    [col |-> "Qty",              how |-> "sum"],
    [col |-> "Amount",           how |-> "sum"] >>

required_columns == <<
    [col |-> "Fabric Type",       default |-> "KNITTED"],
    [col |-> "HS Code",           default |-> <<"6","1","1","1","2","0","0","0">>],
    [col |-> "Country of Origin", default |-> "India"] >>

RECURSIVE AddDefaults(_, _)
AddDefaults(frame, n) ==
    IF n > Len(required_columns) THEN frame
    ELSE AddDefaults(IF Has(frame.columns, required_columns[n].col)
                     THEN frame
                     ELSE AddColumn(frame, required_columns[n].col,
                                    required_columns[n].default),
                     n + 1)

Renamed3(d) == [columns |-> RenameAll(d.columns, d.columns, 1), rows |-> d.rows]

existing_agg(cols) == SelectSeq(agg_functions, LAMBDA a : Has(cols, a.col))

(* A label the aggregation selects occurs twice in the renamed frame.      *)
DuplicateAggColumn(cols) ==
    \E j \in DOMAIN agg_functions : Count(cols, agg_functions[j].col) > 1

(* The outcomes of process_excel_data(d): status "ok" with the grouped     *)
(* frame, "nostyle" with the renamed frame and the reported error, or      *)
(* "raise".  groupby raises on a repeated key label; with a repeated       *)
(* aggregated label pandas either raises or aggregates each occurrence,    *)
(* depending on its version, so both outcomes are in the set.              *)
process_excel_data3(d) ==
    LET p == Renamed3(d)
        grouped == AddDefaults(GroupByAgg(p, "StyleID", existing_agg(p.columns)), 1)
    IN IF ~Has(p.columns, "StyleID")
       THEN {[status |-> "nostyle", frame |-> p]}
       ELSE IF Count(p.columns, "StyleID") > 1
       THEN {[status |-> "raise", frame |-> NoFrame]}
       ELSE IF DuplicateAggColumn(p.columns)
       THEN {[status |-> "raise", frame |-> NoFrame],
             [status |-> "ok", frame |-> grouped]}
       ELSE {[status |-> "ok", frame |-> grouped]}

(* ------------------- 3app.py generate_proforma_invoice ----------------- *)

Pad3(n) ==
    IF n < 10 THEN "00" \o ToString(n)
    ELSE IF n < 100 THEN "0" \o ToString(n)
    ELSE ToString(n)

Pad2(n) == IF n < 10 THEN "0" \o ToString(n) ELSE ToString(n)

(* f"{n:,}" of a non-negative whole number.                                *)
RECURSIVE Grouped(_)
Grouped(n) ==
    IF n < 1000 THEN ToString(n)
    ELSE Grouped(n \div 1000) \o "," \o Pad3(n % 1000)

(* The count of cents nearest to m thousandths; exact for every m that is  *)
(* not half-way between two cents, and the inputs keep clear of those.     *)
Cents(m) == (m + 5) \div 10

(* f"{x:.2f}" of the amount of m thousandths.                              *)
Fixed2(m) == ToString(Cents(m) \div 100) \o "." \o Pad2(Cents(m) % 100)

(* f"{x:,.2f}" of the amount of m thousandths.                             *)
GroupedFixed2(m) == Grouped(Cents(m) \div 100) \o "." \o Pad2(Cents(m) % 100)

(* str.replace(".", "") on a string held as its sequence of characters.    *)
StripDots(chars) == SelectSeq(chars, LAMBDA ch : ch # ".")

(* The if/elif probing of one field in a row: the first label that is      *)
(* PRESENT decides, whether or not its value is missing.                   *)
ProbedLabel(cols, labels) ==
    IF Has(cols, labels[1]) THEN labels[1]
    ELSE IF Has(cols, labels[2]) THEN labels[2]
    ELSE "-"

(* row[label] of a repeated label is a Series, and the test on it raises.  *)
ProbeRaises(cols, labels) == Count(cols, ProbedLabel(cols, labels)) > 1

Probe(cols, row, labels, default) ==
    IF ProbedLabel(cols, labels) = "-" THEN default
    ELSE IF notna(Cell(cols, row, ProbedLabel(cols, labels)))
         THEN Val(Cell(cols, row, ProbedLabel(cols, labels)))
         ELSE default

(* row.get(label, default), with the default also for a missing value.     *)
Get(cols, row, label, default) ==
    IF Has(cols, label) /\ notna(Cell(cols, row, label))
    THEN Val(Cell(cols, row, label))
    ELSE default

QtyLabels    == <<"Qty", "Total Qty">>
PriceLabels  == <<"Unit Price", "USD FOB$">>
AmountLabels == <<"Amount", "Total Value">>
StyleLabels  == <<"StyleID", "Style">>
DescLabels   == <<"Item Description", "Description">>
CompLabels   == <<"Composition", "Material Composition">>

ProbedFields ==
    <<QtyLabels, PriceLabels, AmountLabels, StyleLabels, DescLabels, CompLabels>>

(* The amount of one table row: the row's own amount unless it is 0 while  *)
(* quantity and price are positive.                                        *)
RowAmount(qty, price, amount) ==
    IF amount = 0 /\ qty > 0 /\ price > 0 THEN qty * price ELSE amount

(* The values the loop body reads from one row of the frame it is given.   *)
RowValues3(cols, row) ==
    LET qty    == Probe(cols, row, QtyLabels, 0)
        price  == Probe(cols, row, PriceLabels, 0)
        amount == Probe(cols, row, AmountLabels, 0)
    IN [qty         |-> qty,
        price       |-> price,
        amount      |-> RowAmount(qty, price, amount),
        style_id    |-> Probe(cols, row, StyleLabels, ""),
        description |-> Probe(cols, row, DescLabels, ""),
        composition |-> Probe(cols, row, CompLabels, ""),
        fabric_type |-> Get(cols, row, "Fabric Type", "KNITTED"),
        hs_code     |-> StripDots(Get(cols, row, "HS Code", required_columns[2].default)),
        country     |-> Get(cols, row, "Country of Origin", "India")]

TableRow3(v) ==
    <<v.style_id, v.description, v.fabric_type, v.hs_code, v.composition, v.country,
      IF v.qty > 0 THEN Grouped(v.qty) ELSE "",
      IF v.price > 0 THEN Fixed2(v.price) ELSE "",
      IF v.amount > 0 THEN Fixed2(v.amount) ELSE "">>

RECURSIVE SumField(_, _)
SumField(vs, f) == IF vs = <<>> THEN 0 ELSE Head(vs)[f] + SumField(Tail(vs), f)

(* --------------------- 3app.py total in words -------------------------- *)
(* A sentence is the sequence of its blank-separated words.  The words of  *)
(* num2words are written in upper case: the code upper-cases the result    *)
(* before it looks at it.                                                  *)

Units == <<"ONE", "TWO", "THREE", "FOUR", "FIVE", "SIX", "SEVEN", "EIGHT", "NINE", "TEN",
           "ELEVEN", "TWELVE", "THIRTEEN", "FOURTEEN", "FIFTEEN", "SIXTEEN", "SEVENTEEN",
           "EIGHTEEN", "NINETEEN">>

Tens == <<"TEN", "TWENTY", "THIRTY", "FORTY", "FIFTY", "SIXTY", "SEVENTY", "EIGHTY", "NINETY">>

(* num2words(n).upper() for 0 <= n < 100: one word, hyphenated.            *)
Below100(n) ==
    IF n = 0 THEN "ZERO"
    ELSE IF n < 20 THEN Units[n]
    ELSE IF n % 10 = 0 THEN Tens[n \div 10]
    ELSE Tens[n \div 10] \o "-" \o Units[n % 10]

(* ... for 0 <= n < 1000: "ONE HUNDRED AND TWENTY-THREE".                   *)
Below1000(n) ==
    IF n < 100 THEN <<Below100(n)>>
    ELSE <<Units[n \div 100], "HUNDRED">>
         \o (IF n % 100 = 0 THEN <<>> ELSE <<"AND", Below100(n % 100)>>)

(* ... for 0 <= n < 1000000: "ONE THOUSAND, TWO HUNDRED AND THREE",        *)
(* "ONE THOUSAND AND ONE".                                                 *)
Cardinal(n) ==
    IF n < 1000 THEN Below1000(n)
    ELSE Below1000(n \div 1000)
         \o (IF n % 1000 = 0 THEN <<"THOUSAND">>
             ELSE IF n % 1000 < 100 THEN <<"THOUSAND", "AND", Below100(n % 1000)>>
             ELSE <<"THOUSAND,">> \o Below1000(n % 1000))

(* num2words(n, to='currency', currency='USD').upper() of the int n: an    *)
(* int is taken as a count of cents, divmod(n, 100), and the two parts are *)
(* joined by a comma.                                                      *)
Currency(n) ==
    Cardinal(n \div 100) \o <<IF n \div 100 = 1 THEN "DOLLAR," ELSE "DOLLARS,">>
        \o <<Below100(n % 100), IF n % 100 = 1 THEN "CENT" ELSE "CENTS">>

(* .replace(' AND ZERO CENTS', ' DOLLARS'): the three words, when they     *)
(* follow another word, become the one word DOLLARS.                       *)
RECURSIVE ReplaceAndZeroCents(_, _)
ReplaceAndZeroCents(ws, i) ==
    IF i > Len(ws) THEN <<>>
    ELSE IF i > 1 /\ i + 2 <= Len(ws)
            /\ ws[i] = "AND" /\ ws[i + 1] = "ZERO" /\ ws[i + 2] = "CENTS"
         THEN <<"DOLLARS">> \o ReplaceAndZeroCents(ws, i + 3)
         ELSE <<ws[i]>> \o ReplaceAndZeroCents(ws, i + 1)

(* 'CENTS' in s, 'DOLLARS' in s: some word carries the letters.            *)
HasCents(ws) == \E i \in DOMAIN ws : ws[i] = "CENTS"

HasDollars(ws) == \E i \in DOMAIN ws : ws[i] \in {"DOLLARS", "DOLLARS,"}

(* A float total: finite with its count of thousandths, inf or nan.        *)
Finite(m) == [kind |-> "finite", mills |-> m]

Infinite == [kind |-> "inf", mills |-> 0]

NotANumber == [kind |-> "nan", mills |-> 0]

(* int(total_amount) raises OverflowError for inf, ValueError for nan.     *)
IntRaises(total) == total.kind # "finite"

(* f"{total_amount:,.2f}"; Python writes a non-finite float as inf or nan. *)
FormatTotal(total) ==
    IF total.kind = "finite" THEN GroupedFixed2(total.mills) ELSE total.kind

Fallback(total) == <<"TOTAL", "AMOUNT:", "$" \o FormatTotal(total)>>

(* Mutation: the conversion without the try/except around it.              *)
amount_words_Unguarded(total, engine) ==
    IF IntRaises(total) \/ engine = "fault"
    THEN [status |-> "raise", words |-> <<>>]
    ELSE [status |-> "ok", words |-> Currency(total.mills \div 1000)]

(* The try/except of the total in words.  engine is "fault" when the       *)
(* num2words call raises (a version without the currency argument, a       *)
(* value beyond its range) and "ok" when it returns.                       *)
amount_words(total, engine) ==
    IF IntRaises(total) \/ engine = "fault"
    THEN [status |-> "ok", words |-> Fallback(total)]
    ELSE LET cleaned == ReplaceAndZeroCents(Currency(total.mills \div 1000), 1)
         IN [status |-> "ok",
             words |-> IF ~HasCents(cleaned) /\ ~HasDollars(cleaned)
                       THEN Append(cleaned, "DOLLARS") ELSE cleaned]

(* ------------------- 3app.py generate_proforma_invoice ----------------- *)
(* A date is the record of its day, month and year as strftime writes      *)
(* them.  An argument of the composer is a cell: missing when the caller   *)
(* passes None or leaves it out.                                           *)

strftime_dmY(now) == now.d \o "-" \o now.m \o "-" \o now.y

strftime_md(now) == now.m \o now.d

(* not x, for x a string or None.                                          *)
Falsy(x) == ~notna(x) \/ Val(x) = ""

(* The values the header table prints for the four fields of the invoice.  *)
header3(pi_number, po_reference, shipment_date, now) ==
    [pi_number     |-> IF Falsy(pi_number) THEN "SAR/LG/" \o strftime_md(now)
                       ELSE Val(pi_number),
     invoice_date  |-> strftime_dmY(now),
     po_reference  |-> IF Falsy(po_reference) THEN "CPO/47062/25" ELSE Val(po_reference),
     shipment_date |-> IF Falsy(shipment_date) THEN "07-02-2025" ELSE Val(shipment_date)]

NoHeader == [pi_number |-> "", invoice_date |-> "", po_reference |-> "", shipment_date |-> ""]

NoDoc == [header |-> NoHeader, table_data |-> <<>>, rows |-> <<>>, total_row |-> <<>>,
          total_qty |-> 0, total_amount |-> 0, words |-> <<>>, footer_total |-> "",
          elements |-> <<>>]

(* Mutation: a total of zero is left blank, as a data row leaves it.       *)
total_row3_Blank(total_amount) ==
    <<"", "", "", "", "", "", "", "Total",
      IF total_amount > 0 THEN Fixed2(total_amount) \o "USD" ELSE "">>

total_row3(total_amount) ==
    <<"", "", "", "", "", "", "", "Total", Fixed2(total_amount) \o "USD">>

(* table_data below its heading: the data rows, then the totals row.       *)
table_data3(rows, total_amount) == rows \o <<total_row3(total_amount)>>

(* generate_proforma_invoice(frame, pi_number, po_reference,               *)
(* shipment_date) run on the date now: the header, the table with its      *)
(* totals row, the total in words and the footer, or "raise" when a probed *)
(* label is repeated and the frame has a row to probe.                     *)
generate_proforma_invoice3(frame, pi_number, po_reference, shipment_date, now, engine) ==
    LET cols == frame.columns
        vs   == [r \in DOMAIN frame.rows |-> RowValues3(cols, frame.rows[r])]
        rows == [r \in DOMAIN vs |-> TableRow3(vs[r])]
        tq   == SumField(vs, "qty")
        ta   == SumField(vs, "amount")
        w    == amount_words(Finite(ta), engine)
    IN IF frame.rows # <<>> /\ \E i \in DOMAIN ProbedFields : ProbeRaises(cols, ProbedFields[i])
       THEN [status |-> "raise", doc |-> NoDoc]
       ELSE IF w.status = "raise"
       THEN [status |-> "raise", doc |-> NoDoc]
       ELSE [status |-> "ok",
             doc |-> [header |-> header3(pi_number, po_reference, shipment_date, now),
                      table_data |-> table_data3(rows, ta),
                      rows |-> rows,
                      total_row |-> total_row3(ta),
                      total_qty |-> tq,
                      total_amount |-> ta,
                      words |-> <<"TOTAL", "US", "DOLLAR">> \o w.words,
                      footer_total |-> Grouped(tq),
                      elements |-> <<"header", "table", "words", "footer">>]]

(* ------------------------ 6app.py process_excel_data ------------------- *)
(* 7app.py carries the same function, line for line.                       *)

agg_functions6 == <<
    [col |-> "Description", how |-> "first"],
    [col |-> "Composition", how |-> "first"],
    [col |-> "USD Fob$",    how |-> "first"],
    [col |-> "Total Qty",   how |-> "sum"],
    [col |-> "Total Value", how |-> "sum"] >>

(* df.dropna(subset=[col]): only rows whose cell is missing are dropped.   *)
dropna(frame, col) ==
    [columns |-> frame.columns,
     rows |-> SelectSeq(frame.rows, LAMBDA row : notna(Cell(frame.columns, row, col)))]

(* A label the function indexes by is absent: KeyError.                    *)
MissingLabel6(cols) ==
    ~Has(cols, "Style") \/ \E j \in DOMAIN agg_functions6 : ~Has(cols, agg_functions6[j].col)

process_excel_data6(d) ==
    IF MissingLabel6(d.columns)
    THEN [status |-> "raise", frame |-> NoFrame]
    ELSE [status |-> "ok",
          frame |-> GroupByAgg(dropna(d, "Style"), "Style", agg_functions6)]

(* frame[c].sum(): the sum of a column, missing cells skipped.             *)
ColTotalOf(cols, rows, c) == SumValues(ColumnCells(rows, IndexOf(cols, c)))

(* ------------------- 6app.py generate_proforma_invoice ----------------- *)

(* str(x) and f"{x}" of a cell: a missing value is written as the null     *)
(* marker of the running pandas, "nan" or "None".                          *)
str(c, marker) == IF notna(c) THEN Val(c) ELSE marker

(* Mutation: a missing price is written as an empty cell.                  *)
float_Fixed2_Blank(c) == IF notna(c) THEN Fixed2(Val(c)) ELSE ""

(* f"{float(x):.2f}" of a cell: float('nan') is written "nan".             *)
float_Fixed2(c) == IF notna(c) THEN Fixed2(Val(c)) ELSE "nan"

hs_code6 == <<"6", "1", "1", "1", "2", "0", "0", "0">>

(* int(x) of a number held in thousandths: the fraction is cut off.        *)
int(x) == x \div 1000

(* Quantity, price and amount of a row of the processed table.             *)
RowValues6(cols, row) ==
    [qty    |-> int(Val(Cell(cols, row, "Total Qty"))),
     price  |-> Cell(cols, row, "USD Fob$"),
     amount |-> Val(Cell(cols, row, "Total Value"))]

TableRow6(cols, row, marker) ==
    LET v == RowValues6(cols, row)
    IN <<str(Cell(cols, row, "Style"), marker),
         str(Cell(cols, row, "Description"), marker),
         "KNITTED",
         hs_code6,
         str(Cell(cols, row, "Composition"), marker),
         "India",
         Grouped(v.qty),
         float_Fixed2(v.price),
         Fixed2(v.amount)>>

(* The header prints the three arguments and a fixed shipment date.        *)
header6(pi_number, date_str, cpo_number) ==
    [pi_number     |-> pi_number,
     invoice_date  |-> date_str,
     po_reference  |-> cpo_number,
     shipment_date |-> "07-02-2025"]

(* Mutation: a blank between the amount and the currency code.            *)
total_row6_Spaced(total_qty, total_amount) ==
    <<"", "", "", "", "", "Total", Grouped(total_qty), "", Fixed2(total_amount) \o " USD">>

total_row6(total_qty, total_amount) ==
    <<"", "", "", "", "", "Total", Grouped(total_qty), "", Fixed2(total_amount) \o "USD">>

(* number_to_words and the sentence built around it.                       *)
total_words6(total_amount) ==
    <<"TOTAL", "US", "DOLLAR", GroupedFixed2(total_amount), "DOLLARS">>

(* generate_proforma_invoice(d, pi_number, date_str, cpo_number): the      *)
(* worksheet is processed, then composed.                                  *)
generate_proforma_invoice6(d, pi_number, date_str, cpo_number, marker) ==
    LET processed == process_excel_data6(d)
        cols == processed.frame.columns
        prs  == processed.frame.rows
        vs   == [r \in DOMAIN prs |-> RowValues6(cols, prs[r])]
        rows == [r \in DOMAIN prs |-> TableRow6(cols, prs[r], marker)]
        tq   == SumField(vs, "qty")
        ta   == SumField(vs, "amount")
    IN IF processed.status = "raise"
       THEN [status |-> "raise", doc |-> NoDoc]
       ELSE [status |-> "ok",
             doc |-> [header |-> header6(pi_number, date_str, cpo_number),
                      table_data |-> rows \o <<total_row6(tq, ta)>>,
                      rows |-> rows,
                      total_row |-> total_row6(tq, ta),
                      total_qty |-> tq,
                      total_amount |-> ta,
                      words |-> total_words6(ta),
                      footer_total |-> "",
                      elements |-> <<"header", "table", "words", "footer">>]]

(* --------------------- 7app.py generate_html_invoice ------------------- *)

(* The dtype of a numeric column read from a worksheet: float64 when a     *)
(* cell is empty or holds a number that is not whole, int64 when every     *)
(* cell holds a whole number.                                              *)
IsFloat64(d, c) ==
    \E r \in DOMAIN d.rows :
        LET x == Cell(d.columns, d.rows[r], c)
        IN ~notna(x) \/ Val(x) % 1000 # 0

(* The digits after the point of a float with f thousandths: the shortest  *)
(* that give the number back, one at least.                                *)
FractionDigits(f) ==
    IF f % 100 = 0 THEN ToString(f \div 100)
    ELSE IF f % 10 = 0 THEN Pad2(f \div 10) ELSE Pad3(f)

(* f"{x:,}" of the sum of a column, n thousandths: an int64 sum is written *)
(* as a whole number, a float64 sum keeps its fraction, ".0" included.     *)
GroupedSum(n, float64) ==
    IF float64
    THEN Grouped(n \div 1000) \o "." \o FractionDigits(n % 1000)
    ELSE Grouped(n \div 1000)

(* The totals row; its first cell spans six columns.                       *)
total_row7(qty_text, total_amount) ==
    <<"Total", qty_text, "", Fixed2(total_amount) \o "USD">>

generate_html_invoice(d, pi_number, date_str, cpo_number, marker) ==
    LET processed == process_excel_data6(d)
        cols == processed.frame.columns
        prs  == processed.frame.rows
        rows == [r \in DOMAIN prs |-> TableRow6(cols, prs[r], marker)]
        tq   == ColTotalOf(cols, prs, "Total Qty")
        ta   == ColTotalOf(cols, prs, "Total Value")
        tr   == total_row7(GroupedSum(tq, IsFloat64(d, "Total Qty")), ta)
    IN IF processed.status = "raise"
       THEN [status |-> "raise", doc |-> NoDoc]
       ELSE [status |-> "ok",
             doc |-> [header |-> header6(pi_number, date_str, cpo_number),
                      table_data |-> rows \o <<tr>>,
                      rows |-> rows,
                      total_row |-> tr,
                      total_qty |-> tq,
                      total_amount |-> ta,
                      words |-> total_words6(ta),
                      footer_total |-> "",
                      elements |-> <<"header", "table", "words", "footer">>]]

(* ------------------------------- inputs -------------------------------- *)
(* An uploaded worksheet as pd.read_excel returns it: distinct column      *)
(* labels, at most MaxRows rows.  A profile lists the columns with the     *)
(* values each may hold.                                                   *)

Styles == {NaN, Some(""), Some("A"), Some("B")}

RECURSIVE RowsOf(_)
RowsOf(profile) ==
    IF profile = <<>> THEN {<<>>}
    ELSE {<<c>> \o r : c \in Head(profile).dom, r \in RowsOf(Tail(profile))}

Frame(profile, rs) == [columns |-> [i \in DOMAIN profile |-> profile[i].col], rows |-> rs]

(* d is a worksheet of the profile with at most MaxRows rows.              *)
Uploaded(profile, d) ==
    \E k \in 0..MaxRows : \E rs \in [1..k -> RowsOf(profile)] : d = Frame(profile, rs)

Col(c, dom) == [col |-> c, dom |-> dom]

(* Sums: styles repeat, are empty or missing; quantities and values vary.  *)
SumProfile3 == <<
    Col("Style", Styles),
    Col("Description", {Some("d1")}),
    Col("Material Composition", {Some("c1")}),
    Col("USD FOB$", {Some(2500)}),
    Col("Total Qty", {Some(5), Some(10)}),
    Col("Total Value", {NaN, Some(12500)}) >>

(* Representatives: descriptive fields differ or are missing in a style.   *)
FirstProfile3 == <<
    Col("Style", {Some("A")}),
    Col("Description", {NaN, Some("d1"), Some("d2")}),
    Col("Material Composition", {NaN, Some("c1")}),
    Col("USD FOB$", {NaN, Some(2500)}),
    Col("Total Qty", {Some(10)}),
    Col("Total Value", {Some(25000)}) >>

(* Derivation: amounts missing, zero or supplied; zero and missing numbers. *)
DeriveProfile3 == <<
    Col("Style", {Some("A")}),
    Col("Description", {Some("d1")}),
    Col("Material Composition", {Some("c1")}),
    Col("USD FOB$", {Some(0), Some(2500)}),
    Col("Total Qty", {NaN, Some(0), Some(10)}),
    Col("Total Value", {NaN, Some(0), Some(30000)}) >>

(* Worksheets that carry the three optional columns.                       *)
ExtraProfile3 == <<
    Col("Style", {Some("A")}),
    Col("Description", {Some("d1")}),
    Col("Material Composition", {Some("c1")}),
    Col("USD FOB$", {Some(6000)}),
    Col("Total Qty", {Some(10)}),
    Col("Total Value", {Some(60000)}),
    Col("Fabric Type", {NaN, Some("WOVEN")}),
    Col("HS Code", {NaN, Some(<<"6","1","1","1",".","2","0">>)}),
    Col("Country of Origin", {NaN, Some("China")}) >>

(* The aliases of each canonical field, primary label first.               *)
FieldColumns == [
    style       |-> <<Col("StyleID", {Some("A"), Some("B")}), Col("Style", {Some("A"), Some("B")})>>,
    description |-> <<Col("Item Description", {Some("d1")}), Col("Description", {Some("d2")})>>,
    composition |-> <<Col("Composition", {Some("c1")}), Col("Material Composition", {Some("c2")})>>,
    unit_price  |-> <<Col("Unit Price", {Some(2500)}), Col("USD FOB$", {Some(6000)})>>,
    quantity    |-> <<Col("Qty", {NaN, Some(7)}), Col("Total Qty", {Some(5)})>>,
    amount      |-> <<Col("Amount", {NaN, Some(17500)}), Col("Total Value", {Some(30000)})>> ]

Fields == <<"style", "description", "composition", "unit_price", "quantity", "amount">>

(* How a worksheet may carry a field: not at all, under the primary label, *)
(* under the legacy label, or under both.                                  *)
Carried(f, how) ==
    IF how = "none" THEN <<>>
    ELSE IF how = "primary" THEN <<FieldColumns[f][1]>>
    ELSE IF how = "legacy" THEN <<FieldColumns[f][2]>>
    ELSE FieldColumns[f]

(* Schemas in which one field departs from the legacy labels: it is        *)
(* absent, primary, or carried twice.                                      *)
SchemaProfile(f, how) ==
    Flatten([i \in DOMAIN Fields |->
                Carried(Fields[i], IF Fields[i] = f THEN how ELSE "legacy")])

SchemaProfiles3 ==
    {SchemaProfile(f, how) :
        f \in {Fields[i] : i \in DOMAIN Fields}, how \in {"none", "primary", "both"}}

(* Prices in thousandths of a dollar: amounts that are not whole cents.    *)
MillProfile3 == <<
    Col("Style", {Some("A"), Some("B")}),
    Col("Description", {Some("d1")}),
    Col("Material Composition", {Some("c1")}),
    Col("USD FOB$", {Some(1004)}),
    Col("Total Qty", {Some(1)}),
    Col("Total Value", {NaN, Some(1004)}) >>

Profiles3 ==
    {SumProfile3, FirstProfile3, DeriveProfile3, ExtraProfile3, MillProfile3}
        \cup SchemaProfiles3

(* One record, repeated: the worksheets of the runs that vary the invoice  *)
(* fields and the date.                                                    *)
MetaProfile3 == <<
    Col("Style", {Some("A")}),
    Col("Description", {Some("d1")}),
    Col("Material Composition", {Some("c1")}),
    Col("USD FOB$", {Some(2500)}),
    Col("Total Qty", {Some(10)}),
    Col("Total Value", {Some(25000)}) >>

SumProfile6 == <<
    Col("Style", Styles),
    Col("Description", {Some("d1")}),
    Col("Composition", {Some("c1")}),
    Col("USD Fob$", {Some(2500)}),
    Col("Total Qty", {Some(5000), Some(10000)}),
    Col("Total Value", {NaN, Some(12500)}) >>

FirstProfile6 == <<
    Col("Style", {Some("A")}),
    Col("Description", {NaN, Some("d1"), Some("d2")}),
    Col("Composition", {NaN, Some("c1")}),
    Col("USD Fob$", {NaN, Some(2500)}),
    Col("Total Qty", {Some(10000)}),
    Col("Total Value", {Some(25000)}) >>

PlainProfile6 == <<
    Col("Style", {NaN, Some("A")}),
    Col("Description", {Some("d1")}),
    Col("Composition", {Some("c1")}),
    Col("USD Fob$", {Some(2500)}),
    Col("Total Qty", {Some(5000), Some(10000)}),
    Col("Total Value", {Some(25000)}) >>

(* Worksheets that lack one of the six labels 6app.py requires.            *)
Without(profile, n) == SelectSeq(profile, LAMBDA c : c.col # profile[n].col)

LackingProfiles6 == {Without(PlainProfile6, n) : n \in DOMAIN PlainProfile6}

(* Zero quantities, prices and amounts.                                    *)
ZeroProfile6 == <<
    Col("Style", {Some("A")}),
    Col("Description", {Some("d1")}),
    Col("Composition", {Some("c1")}),
    Col("USD Fob$", {Some(0)}),
    Col("Total Qty", {Some(0), Some(1200000)}),
    Col("Total Value", {Some(0), Some(12500)}) >>

(* Quantities of two pieces and a half, sold at 2.50 USD a piece.          *)
HalfProfile6 == <<
    Col("Style", {Some("A"), Some("B")}),
    Col("Description", {Some("d1")}),
    Col("Composition", {Some("c1")}),
    Col("USD Fob$", {Some(2500)}),
    Col("Total Qty", {Some(1000), Some(2500)}),
    Col("Total Value", {Some(6250)}) >>

Profiles6 == {SumProfile6, FirstProfile6, ZeroProfile6, HalfProfile6} \cup LackingProfiles6

MetaProfile6 == <<
    Col("Style", {Some("A")}),
    Col("Description", {Some("d1")}),
    Col("Composition", {Some("c1")}),
    Col("USD Fob$", {Some(2500)}),
    Col("Total Qty", {Some(10000)}),
    Col("Total Value", {Some(25000)}) >>

(* Worksheets for 7app.py: quantities and text missing here and there.     *)
GapProfile7 == <<
    Col("Style", {NaN, Some("A"), Some("B")}),
    Col("Description", {NaN, Some("d1")}),
    Col("Composition", {Some("c1")}),
    Col("USD Fob$", {Some(2500)}),
    Col("Total Qty", {NaN, Some(1200000)}),
    Col("Total Value", {Some(1004)}) >>

Profiles7 == {GapProfile7, PlainProfile6, HalfProfile6, Without(PlainProfile6, 6)}

(* ------------------------------ the apps ------------------------------- *)

Msg(text, columns) == [text |-> text, columns |-> columns]

(* The clock: the date of the run, and the date after it.                 *)
Day1 == [d |-> "14", m |-> "10", y |-> "2024"]

Day2 == [d |-> "15", m |-> "10", y |-> "2024"]

(* The invoice fields a caller hands to a composer; a field left out is    *)
(* missing.                                                                *)
NoMeta == [pi_number |-> NaN, invoice_date |-> NaN, po_reference |-> NaN, shipment_date |-> NaN]

Metadata ==
    [pi_number     : {NaN, Some("PI/7")},
     invoice_date  : {NaN, Some("05-01-2025")},
     po_reference  : {NaN, Some("PO/9")},
     shipment_date : {NaN, Some("20-03-2025")}]

(* The fields as the widgets of 3app.py main hold them when the user       *)
(* changes nothing: there is no widget for the invoice date.               *)
WidgetDefaults3(now) ==
    [pi_number     |-> Some("SAR/LG/" \o strftime_md(now)),
     invoice_date  |-> NaN,
     po_reference  |-> Some("CPO/47062/25"),
     shipment_date |-> Some(strftime_dmY(now))]

(* The same for the sidebar of 6app.py and 7app.py: no shipment date.      *)
WidgetDefaults6(now) ==
    [pi_number     |-> Some("SAR/LG/0148"),
     invoice_date  |-> Some(strftime_dmY(now)),
     po_reference  |-> Some("CPO/47062/25"),
     shipment_date |-> NaN]

(* An argument of a call: the value handed over, or the default of the     *)
(* signature when the caller leaves it out.                                *)
Arg(x, default) == IF notna(x) THEN Val(x) ELSE default

(* The outcomes of the num2words call, and the null markers of pandas.     *)
Engines == {"ok", "fault"}

NullMarkers == {"nan", "None"}

Init ==
    /\ app = "none"
    /\ pc = "idle"
    /\ df = NoFrame
    /\ df_processed = NoFrame
    /\ messages = <<>>
    /\ doc = NoDoc
    /\ today = Day1
    /\ meta = NoMeta
    /\ total_float = Finite(0)

(* 3app.py main: the file is read.                                         *)
UploadFrom3(profiles) ==
    /\ pc = "idle"
    /\ \E p \in profiles : Uploaded(p, df')
    /\ app' = "3app"
    /\ pc' = "uploaded"
    /\ UNCHANGED <<df_processed, messages, doc, today, meta, total_float>>

Upload3 == UploadFrom3(Profiles3)

(* The Series-valued total of a repeated label cannot be formatted.        *)
PreviewRaises3(cols) ==
    \/ Count(cols, ProbedLabel(cols, QtyLabels)) > 1
    \/ Count(cols, ProbedLabel(cols, AmountLabels)) > 1

(* 3app.py main: processing and the preview of the processed table.  An    *)
(* exception ends the run in the handler of the outer try.                 *)
Process3 ==
    /\ app = "3app" /\ pc = "uploaded"
    /\ \E o \in process_excel_data3(df) :
         LET told == IF o.status = "nostyle"
                     THEN Append(messages, Msg("StyleID column not found in the Excel file", <<>>))
                     ELSE messages
         IN IF o.status = "raise" \/ PreviewRaises3(o.frame.columns)
            THEN /\ pc' = "failed"
                 /\ messages' = Append(told, Msg("Error reading Excel file", <<>>))
                 /\ UNCHANGED df_processed
            ELSE /\ pc' = "processed"
                 /\ messages' = told
                 /\ df_processed' = o.frame
    /\ UNCHANGED <<app, df, doc, today, meta, total_float>>

(* 3app.py main: the Generate button, pressed with the fields md in the    *)
(* widgets.  The button stays on the page after a document is made.        *)
GenerateWith3(mds, engines) ==
    /\ app = "3app" /\ pc \in {"processed", "generated"}
    /\ \E md \in mds, engine \in engines :
         LET g == generate_proforma_invoice3(df_processed, md.pi_number, md.po_reference,
                                             md.shipment_date, today, engine)
         IN /\ meta' = md
            /\ IF g.status = "raise"
               THEN /\ pc' = "failed"
                    /\ messages' = Append(messages, Msg("Error generating PDF", <<>>))
                    /\ UNCHANGED doc
               ELSE /\ pc' = "generated"
                    /\ doc' = g.doc
                    /\ UNCHANGED messages
    /\ UNCHANGED <<app, df, df_processed, today, total_float>>

Generate3 == GenerateWith3({WidgetDefaults3(today)}, Engines)

(* 6app.py main: the file is read.                                         *)
UploadFrom6(profiles) ==
    /\ pc = "idle"
    /\ \E p \in profiles : Uploaded(p, df')
    /\ app' = "6app"
    /\ pc' = "uploaded"
    /\ UNCHANGED <<df_processed, messages, doc, today, meta, total_float>>

Upload6 == UploadFrom6(Profiles6)

required_columns6 ==
    <<"Style", "Description", "Composition", "USD Fob$", "Total Qty", "Total Value">>

missing_columns(cols) == SelectSeq(required_columns6, LAMBDA c : ~Has(cols, c))

(* 6app.py and 7app.py main: the check of the required columns and the     *)
(* preview.                                                                *)
PreviewOf(a) ==
    /\ app = a /\ pc = "uploaded"
    /\ IF missing_columns(df.columns) # <<>>
       THEN /\ pc' = "rejected"
            /\ messages' = Append(messages,
                                  Msg("Missing required columns", missing_columns(df.columns)))
            /\ UNCHANGED df_processed
       ELSE /\ pc' = "processed"
            /\ df_processed' = process_excel_data6(df).frame
            /\ UNCHANGED messages
    /\ UNCHANGED <<app, df, doc, today, meta, total_float>>

Preview6 == PreviewOf("6app")

(* 6app.py main: the Generate button.  The composer is handed the          *)
(* worksheet as it was read and processes it again.                        *)
GenerateWith6(mds) ==
    /\ app = "6app" /\ pc \in {"processed", "generated"}
    /\ \E md \in mds, marker \in NullMarkers :
         LET g == generate_proforma_invoice6(df, Arg(md.pi_number, "SAR/LG/0148"),
                                             Arg(md.invoice_date, "14-10-2024"),
                                             Arg(md.po_reference, "CPO/47062/25"), marker)
         IN /\ meta' = md
            /\ IF g.status = "raise"
               THEN /\ pc' = "failed"
                    /\ messages' = Append(messages, Msg("Error generating PDF", <<>>))
                    /\ UNCHANGED doc
               ELSE /\ pc' = "generated"
                    /\ doc' = g.doc
                    /\ UNCHANGED messages
    /\ UNCHANGED <<app, df, df_processed, today, total_float>>

Generate6 == GenerateWith6({WidgetDefaults6(today)})

(* 7app.py main: the file is read.                                         *)
Upload7 ==
    /\ pc = "idle"
    /\ \E p \in Profiles7 : Uploaded(p, df')
    /\ app' = "7app"
    /\ pc' = "uploaded"
    /\ UNCHANGED <<df_processed, messages, doc, today, meta, total_float>>

Preview7 == PreviewOf("7app")

(* 7app.py main: the Generate button.                                      *)
Generate7 ==
    /\ app = "7app" /\ pc \in {"processed", "generated"}
    /\ \E marker \in NullMarkers :
         LET md == WidgetDefaults6(today)
             g  == generate_html_invoice(df, Arg(md.pi_number, "SAR/LG/0148"),
                                         Arg(md.invoice_date, "14-10-2024"),
                                         Arg(md.po_reference, "CPO/47062/25"), marker)
         IN /\ meta' = md
            /\ IF g.status = "raise"
               THEN /\ pc' = "failed"
                    /\ messages' = Append(messages, Msg("Error generating invoice", <<>>))
                    /\ UNCHANGED doc
               ELSE /\ pc' = "generated"
                    /\ doc' = g.doc
                    /\ UNCHANGED messages
    /\ UNCHANGED <<app, df, df_processed, today, total_float>>

Next ==
    \/ Upload3 \/ Process3 \/ Generate3
    \/ Upload6 \/ Preview6 \/ Generate6
    \/ Upload7 \/ Preview7 \/ Generate7

Spec == Init /\ [][Next]_vars

(* --------------- runs that vary the invoice fields and the date -------- *)

UploadMeta3 == UploadFrom3({MetaProfile3})

GenerateMeta3 == GenerateWith3(Metadata \cup {WidgetDefaults3(today)}, {"ok"})

UploadMeta6 == UploadFrom6({MetaProfile6, Without(MetaProfile6, 6)})

GenerateMeta6 == GenerateWith6(Metadata \cup {WidgetDefaults6(today)})

(* Midnight passes.                                                        *)
Tick ==
    /\ today = Day1
    /\ today' = Day2
    /\ UNCHANGED <<app, pc, df, df_processed, messages, doc, meta, total_float>>

NextMeta ==
    \/ UploadMeta3 \/ Process3 \/ GenerateMeta3
    \/ UploadMeta6 \/ Preview6 \/ GenerateMeta6
    \/ Tick

SpecMeta == Init /\ [][NextMeta]_vars

(* ------------------- the total in words, on its own -------------------- *)
(* The step of 3app.py that words the total, applied to the float the      *)
(* table loop leaves in total_amount.                                      *)

MaxTotals == 60

Totals == {Finite(k * 50500) : k \in 0..MaxTotals} \cup {Infinite, NotANumber}

InitWords ==
    /\ app = "3app"
    /\ pc = "table"
    /\ df = NoFrame
    /\ df_processed = NoFrame
    /\ messages = <<>>
    /\ doc = [NoDoc EXCEPT !.elements = <<"header", "table">>]
    /\ today = Day1
    /\ meta = NoMeta
    /\ total_float \in Totals

TotalInWords ==
    /\ pc = "table"
    /\ \E engine \in Engines :
         LET w == amount_words(total_float, engine)
         IN IF w.status = "raise"
            THEN /\ pc' = "failed"
                 /\ messages' = Append(messages, Msg("Error generating PDF", <<>>))
                 /\ UNCHANGED doc
            ELSE /\ pc' = "generated"
                 /\ doc' = [doc EXCEPT !.words = <<"TOTAL", "US", "DOLLAR">> \o w.words,
                                       !.elements = <<"header", "table", "words", "footer">>]
                 /\ UNCHANGED messages
    /\ UNCHANGED <<app, df, df_processed, today, meta, total_float>>

NextWords == TotalInWords

SpecWords == InitWords /\ [][NextWords]_vars

(* ----------------- the aggregated table and its input ------------------ *)

StyleCol  == IF app = "3app" THEN "StyleID" ELSE "Style"
QtyCol    == IF app = "3app" THEN "Qty" ELSE "Total Qty"
AmountCol == IF app = "3app" THEN "Amount" ELSE "Total Value"
FirstCols == IF app = "3app"
             THEN {"Item Description", "Composition", "Unit Price"}
             ELSE {"Description", "Composition", "USD Fob$"}

(* The uploaded records under the labels the aggregation reads.            *)
KeyFrame == IF app = "3app" THEN Renamed3(df) ELSE df

(* process_excel_data has returned a grouped table.                        *)
Aggregated == df_processed # NoFrame /\ Has(df_processed.columns, StyleCol)

StyleOf(frame, r) == Cell(frame.columns, frame.rows[r], StyleCol)

(* The input records whose style identifier resolves to a value.           *)
Survivors == SelectSeq(KeyFrame.rows, LAMBDA row : notna(Cell(KeyFrame.columns, row, StyleCol)))

Dropped == SelectSeq(KeyFrame.rows, LAMBDA row : ~notna(Cell(KeyFrame.columns, row, StyleCol)))

ColTotal(cols, rows, c) ==
    IF Has(cols, c) THEN SumValues(ColumnCells(rows, IndexOf(cols, c))) ELSE 0

InputStyles == {Val(Cell(KeyFrame.columns, Survivors[r], StyleCol)) : r \in DOMAIN Survivors}

(* The input records of style s, as positions in the upload.               *)
RecordsOf(s) == {r \in DOMAIN KeyFrame.rows : StyleOf(KeyFrame, r) = Some(s)}

FirstPos(s) == CHOOSE r \in RecordsOf(s) : \A q \in RecordsOf(s) : r <= q

OutStyle(r) == Val(StyleOf(df_processed, r))

(* C1: the aggregated quantities sum to the quantities of the input        *)
(* records whose style identifier resolves, and the aggregated amounts to  *)
(* their amounts: no unit is lost or counted twice.                        *)
C1_AggregationSums ==
    Aggregated =>
        /\ ColTotal(df_processed.columns, df_processed.rows, QtyCol)
             = ColTotal(KeyFrame.columns, Survivors, QtyCol)
        /\ ColTotal(df_processed.columns, df_processed.rows, AmountCol)
             = ColTotal(KeyFrame.columns, Survivors, AmountCol)

C1_Witness ==
    /\ Aggregated
    /\ Len(Survivors) = 2 /\ Len(df_processed.rows) = 1
    /\ InputStyles = {"A"}
    /\ ColTotal(df_processed.columns, df_processed.rows, QtyCol) = 15
    /\ ColTotal(df_processed.columns, df_processed.rows, AmountCol) = 25000

(* C2: every style identifier carried by a surviving record has exactly    *)
(* one aggregated line item, and every aggregated line item carries a      *)
(* style identifier of some input record.                                  *)
C2_OneItemPerStyle ==
    Aggregated =>
        /\ \A s \in InputStyles :
              Cardinality({r \in DOMAIN df_processed.rows : StyleOf(df_processed, r) = Some(s)}) = 1
        /\ \A r \in DOMAIN df_processed.rows :
              /\ notna(StyleOf(df_processed, r))
              /\ OutStyle(r) \in InputStyles

C2_Witness ==
    /\ Aggregated
    /\ Len(Survivors) = 2 /\ InputStyles = {"B"}
    /\ Len(df_processed.rows) = 1

(* C3 as stated: aggregated line items follow the order in which their     *)
(* styles first appear in the input.                                       *)
C3_FirstAppearanceOrder ==
    Aggregated =>
        \A i, j \in DOMAIN df_processed.rows :
            i < j => FirstPos(OutStyle(i)) < FirstPos(OutStyle(j))

(* C3 amended: aggregated line items are in ascending order of their style *)
(* identifier, whatever the order of first appearance in the input.        *)
C3_AscendingStyleOrder ==
    Aggregated =>
        \A i, j \in DOMAIN df_processed.rows :
            i < j => StyleRank(OutStyle(i)) < StyleRank(OutStyle(j))

C3_Witness ==
    /\ Aggregated
    /\ Len(df_processed.rows) = 2
    /\ FirstPos(OutStyle(2)) < FirstPos(OutStyle(1))

(* The cell of column c in the earliest input record of style s.           *)
EarliestCell(s, c) == Cell(KeyFrame.columns, KeyFrame.rows[FirstPos(s)], c)

(* The input records of style s that hold a value in column c.             *)
Holding(s, c) == {r \in RecordsOf(s) : notna(Cell(KeyFrame.columns, KeyFrame.rows[r], c))}

UniqueLabels(cols) == \A i, j \in DOMAIN cols : cols[i] = cols[j] => i = j

(* C4 as stated: description, composition and unit price of an aggregated  *)
(* line item are those of the earliest input record of its style, missing  *)
(* when that record's value is missing.                                    *)
C4_EarliestRecordValues ==
    (Aggregated /\ UniqueLabels(df_processed.columns)) =>
        \A r \in DOMAIN df_processed.rows :
            \A c \in FirstCols :
                Has(df_processed.columns, c) =>
                    Cell(df_processed.columns, df_processed.rows[r], c)
                        = EarliestCell(OutStyle(r), c)

(* C4 amended: description, composition and unit price of an aggregated    *)
(* line item are those of the earliest input record of its style that      *)
(* holds a value for the field; the field is missing only when no record   *)
(* of the style holds a value.                                             *)
C4_EarliestHeldValues ==
    (Aggregated /\ UniqueLabels(df_processed.columns)) =>
        \A r \in DOMAIN df_processed.rows :
            \A c \in FirstCols :
                Has(df_processed.columns, c) =>
                    LET held == Holding(OutStyle(r), c)
                        got  == Cell(df_processed.columns, df_processed.rows[r], c)
                    IN IF held = {} THEN got = NaN
                       ELSE got = Cell(KeyFrame.columns,
                                       KeyFrame.rows[CHOOSE q \in held : \A z \in held : q <= z], c)

C4_Witness ==
    /\ Aggregated /\ UniqueLabels(df_processed.columns)
    /\ \E r \in DOMAIN df_processed.rows :
         \E c \in FirstCols :
            /\ Has(df_processed.columns, c)
            /\ Cardinality(RecordsOf(OutStyle(r))) = 2
            /\ ~notna(EarliestCell(OutStyle(r), c))
            /\ notna(Cell(df_processed.columns, df_processed.rows[r], c))

(* ------------------------ the rendered table --------------------------- *)

Rendered == app = "3app" /\ pc = "generated" /\ Aggregated

(* The input records of the style shown in table row r, in input order.    *)
RowRecords(r) == GroupRows(KeyFrame, StyleCol, doc.rows[r][1])

FirstRecord(r) == KeyFrame.rows[FirstPos(doc.rows[r][1])]

(* C5: the table row of a style shows the fabric type, HS code and country *)
(* of origin its first record supplies, and KNITTED / 61112000 / India     *)
(* only where that record supplies none.                                   *)
C5_SuppliedOriginFields ==
    Rendered =>
        \A r \in DOMAIN doc.rows :
            /\ doc.rows[r][3] = Get(KeyFrame.columns, FirstRecord(r), "Fabric Type", "KNITTED")
            /\ doc.rows[r][4] = StripDots(Get(KeyFrame.columns, FirstRecord(r), "HS Code",
                                              required_columns[2].default))
            /\ doc.rows[r][6] = Get(KeyFrame.columns, FirstRecord(r), "Country of Origin", "India")

(* What one input record contributes to its style's amount when the        *)
(* derivation rule is applied to the record itself.                        *)
RecordAmount(cols, row) ==
    RowAmount(Get(cols, row, "Qty", 0), Get(cols, row, "Unit Price", 0), Get(cols, row, "Amount", 0))

RECURSIVE SumRecordAmounts(_, _)
SumRecordAmounts(cols, rows) ==
    IF rows = <<>> THEN 0
    ELSE RecordAmount(cols, Head(rows)) + SumRecordAmounts(cols, Tail(rows))

(* C6: the amount shown for a style is the sum over its records of the     *)
(* supplied amount, or of quantity * unit price for a record whose amount  *)
(* is absent or 0 while quantity and price are positive.                   *)
C6_PerRecordDerivation ==
    (Rendered /\ UniqueLabels(KeyFrame.columns)) =>
        \A r \in DOMAIN doc.rows :
            LET a == SumRecordAmounts(KeyFrame.columns, RowRecords(r))
            IN doc.rows[r][9] = IF a > 0 THEN Fixed2(a) ELSE ""

(* C7: no aggregated line item has a missing or empty style identifier.    *)
C7_NoEmptyStyle ==
    Aggregated =>
        \A r \in DOMAIN df_processed.rows :
            notna(StyleOf(df_processed, r)) /\ OutStyle(r) # ""

(* What process_excel_data hands its caller for the worksheet d: the       *)
(* returned table together with the error it reports.                      *)
Outcome(d) == IF app = "3app" THEN process_excel_data3(d) ELSE {process_excel_data6(d)}

(* The upload without the records that lack a style identifier.            *)
WithoutDropped ==
    [df EXCEPT !.rows = SelectSeq(df.rows,
                           LAMBDA row : notna(row[IndexOf(KeyFrame.columns, StyleCol)]))]

(* C8: a run that drops a record for lacking a style identifier differs,   *)
(* in what it hands its caller, from the run without that record.          *)
C8_DropsReported ==
    (Aggregated /\ Dropped # <<>>) => Outcome(df) # Outcome(WithoutDropped)

(* The canonical fields none of whose labels the worksheet carries.        *)
MissingFields(cols) ==
    {f \in DOMAIN FieldColumns :
        ~Has(cols, FieldColumns[f][1].col) /\ ~Has(cols, FieldColumns[f][2].col)}

RequiredMissing ==
    IF app = "3app" THEN MissingFields(df.columns) # {}
    ELSE missing_columns(df.columns) # <<>>

(* C9: a run whose input records lack every label of a required field     *)
(* never reaches document generation.                                      *)
C9_SchemaGate == (RequiredMissing /\ df.rows # <<>>) => pc # "generated"

(* The value of the first label, in priority order, that is present and    *)
(* holds a value.                                                          *)
PriorityValue(cols, row, labels, default) ==
    IF Has(cols, labels[1]) /\ notna(Cell(cols, row, labels[1]))
    THEN Val(Cell(cols, row, labels[1]))
    ELSE Get(cols, row, labels[2], default)

RECURSIVE PriorityQty(_, _)
PriorityQty(cols, rows) ==
    IF rows = <<>> THEN 0
    ELSE (IF PriorityValue(cols, Head(rows), StyleLabels, "-") # "-"
          THEN PriorityValue(cols, Head(rows), QtyLabels, 0) ELSE 0)
         + PriorityQty(cols, Tail(rows))

(* C10: when the records carry a label for every field, also two labels of *)
(* one field, the run resolves each record by the first label that is      *)
(* present and holds a value, and generates the document.                  *)
C10_AliasPriority ==
    (/\ app = "3app" /\ pc \in {"generated", "failed"}
     /\ MissingFields(df.columns) = {} /\ df.rows # <<>>) =>
        /\ pc = "generated"
        /\ doc.total_qty = PriorityQty(df.columns, df.rows)

(* ------------------------ the composed document ------------------------ *)

Composed == pc = "generated" /\ app \in {"3app", "6app", "7app"}

(* The text cells of a data row: every cell but the HS code, which is held *)
(* as its characters.                                                      *)
TextCells(row) == {row[c] : c \in DOMAIN row \ {4}}

(* C11: no rendered cell shows a null marker: a missing number is rendered *)
(* as 0 or an empty cell and a missing text as the empty string, and the   *)
(* composer does not raise because a value is missing.                     *)
C11_NoNullMarker ==
    /\ Composed => \A r \in DOMAIN doc.rows : TextCells(doc.rows[r]) \cap NullMarkers = {}
    /\ app \in {"6app", "7app"} => pc # "failed"

(* Quantity, unit price and amount of the line item behind data row r, as  *)
(* the composer reads them; price is a cell, missing when the item has     *)
(* none.                                                                   *)
ItemValues(r) ==
    IF app = "3app"
    THEN LET v == RowValues3(df_processed.columns, df_processed.rows[r])
         IN [qty |-> v.qty, price |-> Some(v.price), amount |-> v.amount]
    ELSE RowValues6(df_processed.columns, df_processed.rows[r])

(* C12: in every rendered data row the quantity cell is empty when the     *)
(* item's quantity is 0 and the thousands-grouped integer otherwise; the   *)
(* unit-price and amount cells are empty when the value is 0 and the value *)
(* with two decimals otherwise.                                            *)
C12_ZeroCellsBlank ==
    Composed =>
        \A r \in DOMAIN doc.rows :
            LET v == ItemValues(r)
            IN /\ doc.rows[r][7] = IF v.qty = 0 THEN "" ELSE Grouped(v.qty)
               /\ notna(v.price) =>
                    doc.rows[r][8] = IF Val(v.price) = 0 THEN "" ELSE Fixed2(Val(v.price))
               /\ doc.rows[r][9] = IF v.amount = 0 THEN "" ELSE Fixed2(v.amount)

(* The amount data row r displays, in cents: an empty cell displays 0.     *)
ShownCents(r) == IF doc.rows[r][9] = "" THEN 0 ELSE Cents(ItemValues(r).amount)

RECURSIVE SumShownCents(_)
SumShownCents(n) == IF n = 0 THEN 0 ELSE ShownCents(n) + SumShownCents(n - 1)

(* The amount cell of the totals row: its last cell.                       *)
TotalAmountCell == doc.total_row[Len(doc.total_row)]

(* C13: the amount of the totals row is the sum, at two decimals, of the   *)
(* amounts the data rows display: the rows foot to the displayed total.    *)
C13_RowsFootToTotal ==
    Composed =>
        /\ \A r \in DOMAIN doc.rows : doc.rows[r][9] \in {"", Fixed2(ItemValues(r).amount)}
        /\ TotalAmountCell = Fixed2(10 * SumShownCents(Len(doc.rows))) \o "USD"

(* The cell of a table row that carries the label of the totals row.       *)
LabelCell == IF app = "3app" THEN 8 ELSE IF app = "6app" THEN 6 ELSE 1

IsTotalsRow(row) == row[LabelCell] = "Total"

(* The total quantity as a document may write it, thousands-grouped: the  *)
(* whole number, or in 7app.py the sum as a float, with its fraction.      *)
GroupedQuantity ==
    IF app = "7app"
    THEN {GroupedSum(doc.total_qty, FALSE), GroupedSum(doc.total_qty, TRUE)}
    ELSE {Grouped(doc.total_qty)}

TwoDecimalsGrouped(t) ==
    IF t.kind = "finite"
    THEN Grouped(Cents(t.mills) \div 100) \o "." \o Pad2(Cents(t.mills) % 100)
    ELSE t.kind

FallbackSentence(t) ==
    <<"TOTAL", "US", "DOLLAR", "TOTAL", "AMOUNT:", "$" \o TwoDecimalsGrouped(t)>>

(* The sentence of the document is the fallback one.                       *)
FellBack == Len(doc.words) = 6 /\ doc.words[4] = "TOTAL" /\ doc.words[5] = "AMOUNT:"

Complete == doc.elements = <<"header", "table", "words", "footer">>

Wording == SubSeq(doc.words, 4, Len(doc.words))

(* The whole dollars of the total amount.                                  *)
IntegerPart == doc.total_amount \div 1000

ZeroCents(ws) == \E i \in DOMAIN ws : i < Len(ws) /\ ws[i] = "ZERO" /\ ws[i + 1] = "CENTS"

(* C16: when the conversion succeeds, the sentence words the integer part  *)
(* of the total amount, carries a currency marker (CENTS or DOLLARS) and   *)
(* never contains "ZERO CENTS".                                            *)
C16_WordsOfIntegerPart ==
    (Composed /\ app = "3app" /\ doc.rows # <<>> /\ ~FellBack) =>
        /\ Len(Wording) > Len(Cardinal(IntegerPart))
        /\ SubSeq(Wording, 1, Len(Cardinal(IntegerPart))) = Cardinal(IntegerPart)
        /\ HasCents(Wording) \/ HasDollars(Wording)
        /\ ~ZeroCents(Wording)

(* ------------------------- the empty invoice --------------------------- *)

(* The composer is handed line items, and there are none.                  *)
NoLineItems == df_processed # NoFrame /\ df_processed.rows = <<>>

(* C17: with no line items the composer does not raise and returns a       *)
(* document with no data row, a total quantity of 0, a total amount of     *)
(* 0.00 in the totals row, then the words sentence and the footer.         *)
C17_EmptyInvoice ==
    NoLineItems =>
        /\ pc # "failed"
        /\ Composed =>
              /\ doc.rows = <<>>
              /\ doc.table_data = <<doc.total_row>>
              /\ IsTotalsRow(doc.total_row)
              /\ TotalAmountCell = "0.00USD"
              /\ doc.total_qty = 0
              /\ app = "3app" => doc.footer_total = "0"
              /\ app = "6app" => doc.total_row[7] = "0"
              /\ app = "7app" => doc.total_row[2] \in {"0", "0.0"}
              /\ Len(doc.words) > 3
              /\ Complete

C17_Witness ==
    /\ Composed /\ NoLineItems
    /\ app = "3app"
    /\ df.rows # <<>>
    /\ doc.total_row = <<"", "", "", "", "", "", "", "Total", "0.00USD">>
    /\ doc.footer_total = "0"

(* ------------------------- the invoice fields -------------------------- *)

HeaderFields == {"pi_number", "invoice_date", "po_reference", "shipment_date"}

(* C18: every invoice field the caller supplies is shown in the header as  *)
(* supplied: no built-in literal and no clock date stands in its place.    *)
C18_SuppliedFieldsShown ==
    Composed =>
        \A f \in HeaderFields : notna(meta[f]) => doc.header[f] = Val(meta[f])

(* ------------------------------ HS codes ------------------------------- *)

(* The HS code the earliest record of the style of data row r supplies,    *)
(* as its characters; none when the record supplies no code.               *)
SuppliedHsCode(r) == Get(KeyFrame.columns, FirstRecord(r), "HS Code", <<>>)

RECURSIVE WithoutDots(_)
WithoutDots(chars) ==
    IF chars = <<>> THEN <<>>
    ELSE IF Head(chars) = "." THEN WithoutDots(Tail(chars))
    ELSE <<Head(chars)>> \o WithoutDots(Tail(chars))

(* C19: the HS code rendered for a style is the code its record supplies   *)
(* with every "." removed and the other characters kept in order, and      *)
(* "61112000" when the record supplies none.                               *)
C19_HsCodeDotsRemoved ==
    Rendered =>
        \A r \in DOMAIN doc.rows :
            doc.rows[r][4] = IF SuppliedHsCode(r) = <<>>
                             THEN <<"6", "1", "1", "1", "2", "0", "0", "0">>
                             ELSE WithoutDots(SuppliedHsCode(r))

(* ----------------------- composing a second time ----------------------- *)

(* C20: composing again from the same records with the same invoice fields *)
(* gives the same document, whatever happened in between, a change of the  *)
(* date included; and no step after the upload changes the records read.   *)
C20_SameInputSameDocument ==
    [][/\ (pc = "generated" /\ pc' = "generated" /\ meta' = meta) => doc' = doc
       /\ pc # "idle" => df' = df]_vars


(* --------------------- the two composers side by side ------------------ *)

(* A document of 6app.py or 7app.py has been composed.                     *)
ComposedPdfOrHtml == pc = "generated" /\ app \in {"6app", "7app"}

(* The documents the two composers return for the worksheet and the        *)
(* invoice fields of the run, under one pandas.                            *)
Pdf(marker) ==
    generate_proforma_invoice6(df, Arg(meta.pi_number, "SAR/LG/0148"),
                               Arg(meta.invoice_date, "14-10-2024"),
                               Arg(meta.po_reference, "CPO/47062/25"), marker).doc

Html(marker) ==
    generate_html_invoice(df, Arg(meta.pi_number, "SAR/LG/0148"),
                          Arg(meta.invoice_date, "14-10-2024"),
                          Arg(meta.po_reference, "CPO/47062/25"), marker).doc

(* The document of the composer that did not run.                          *)
OtherApp == IF app = "6app" THEN "7app" ELSE "6app"

Counterpart(marker) == IF app = "6app" THEN Html(marker) ELSE Pdf(marker)

(* The total quantity and the total amount a totals row shows.             *)
QuantityCell(a, d) == d.total_row[IF a = "6app" THEN 7 ELSE 2]

AmountCell(d) == d.total_row[Len(d.total_row)]

(* All of the logical document but the total quantity.                     *)
SameBody(d, e) ==
    /\ e.header = d.header
    /\ e.rows = d.rows
    /\ AmountCell(e) = AmountCell(d)
    /\ e.words = d.words

(* C21: for the same records and invoice fields the PDF composer of        *)
(* 6app.py and the HTML composer of 7app.py emit the same logical          *)
(* document: the same data rows in the same order, the same total quantity *)
(* and total amount in the totals row and the same totals sentence, also   *)
(* when aggregated quantities are not whole numbers.                       *)
C21_SameLogicalDocument ==
    ComposedPdfOrHtml =>
        \E marker \in NullMarkers :
            /\ SameBody(doc, Counterpart(marker))
            /\ QuantityCell(OtherApp, Counterpart(marker)) = QuantityCell(app, doc)


(* ------------------------ processing a second time --------------------- *)

(* The outcomes of process_excel_data applied to the table it returned.    *)
Reprocessed ==
    IF app = "3app"
    THEN process_excel_data3(df_processed)
    ELSE {process_excel_data6(df_processed)}

(* C22: process_excel_data is idempotent on its own output: applied to the *)
(* aggregated table it returned it yields a table with the same rows, the  *)
(* same order and the same values.  A table with a repeated label came out *)
(* of a pandas that aggregates repeated labels, so of the outcomes of the  *)
(* second pass the one that raises belongs to another pandas: the second   *)
(* pass has an outcome that returns a table, and every such outcome is the *)
(* aggregated table it was given.                                          *)
C22_ProcessIdempotent ==
    Aggregated =>
        /\ \E o \in Reprocessed : o.status = "ok"
        /\ \A o \in Reprocessed :
              /\ o.status # "nostyle"
              /\ o.status = "ok" => o.frame = df_processed

(* Two records of one style were merged, and a second pass returns the     *)
(* merged record as it is.                                                 *)
C22_Witness ==
    /\ Aggregated
    /\ Len(df.rows) = 2 /\ Len(df_processed.rows) = 1
    /\ \E o \in Reprocessed : o.status = "ok" /\ o.frame = df_processed

====
